---------------------------- MODULE Spec2Model ----------------------------
(***************************************************************************)
(* StackPtr: an owning pointer to a value that lives in a local of the     *)
(* enclosing block (src/src/lib.rs, src/src/stack_ptr.rs, src/src/iter.rs, *)
(* src/src/impls.rs).                                                      *)
(*                                                                         *)
(* The model is one block that declares a StackPtr with declare_stackptr!  *)
(* over an array value of N elements, each element with a destructor, and  *)
(* then uses it: moves, mem::drop, into_raw_parts / from_raw_parts,        *)
(* coerce_stackptr!, deref / deref_mut / borrow / borrow_mut, the          *)
(* consuming slice iterator, and finally the block's exit, which destroys  *)
(* the block's locals in reverse order of declaration.                     *)
(*                                                                         *)
(* What rustc rejects at compile time (use of a moved binding, moving a    *)
(* borrowed value, a second &mut borrow) is a guard of the action: the     *)
(* program that would take the step does not exist.  What is `unsafe` in   *)
(* the source is not guarded: from_raw_parts may be applied to a raw pair  *)
(* any number of times, since *mut T and PhantomData are Copy.             *)
(***************************************************************************)
EXTENDS Naturals, Sequences, FiniteSets, Bags

\* Bounds of the model.
MaxLen == 3        \* longest array the block declares
MaxLocals == 2     \* bindings the body may declare after the macro's own
MaxRefs == 2       \* references alive at once

VARIABLES
    pc,         \* position in the block: the macro's steps, the body, the exit
    expr,       \* $expr: the value the block declares the StackPtr over
    declTy,     \* $ty: the pointee type the macro casts the address to
    locals,     \* the block's locals, in order of declaration
    mem,        \* the bytes in the storage of `_value`
    ptr,        \* the macro's `let ptr`
    raw,        \* the (ptr, lifetime) pair into_raw_parts returned last
    iter,       \* the SliceIntoIter, if into_iter was called
    refs,       \* the references to the pointee that are alive
    destroyed,  \* per element: how many times its destructor has run
    byIter,     \* per element: how many of those runs SliceIntoIter::drop made
    yielded,    \* the elements next() returned, in order, as <<index, value>>
    lastNext,   \* what the last next() returned: "Some", "None" or "-"
    seen,       \* what the last deref / borrow / borrow_mut read
    hist        \* what was called so far: fromRaw counts the from_raw_parts
                \* calls on the current pair; reused: some pair was
                \* reassembled twice; memDrop: mem::drop was called on a
                \* StackPtr; coerced: coerce_stackptr! was used

vars == <<pc, expr, declTy, locals, mem, ptr, raw, iter, refs, destroyed,
          byIter, yielded, lastNext, seen, hist>>

\* The values an element may have.
Vals == {1, 2}

Values == UNION {[1..n -> Vals] : n \in 1..MaxLen}

Types == {"Sized", "Slice", "Dyn"}

\* The number of elements of the concrete type [T; N] of `_value`, which the
\* compiler knows statically.
ConcreteLen == Len(expr)

Elems == 1..ConcreteLen

NullPtr == [addr |-> "null", ty |-> "Sized", len |-> 0, vtable |-> FALSE]

NoRaw == [ptr |-> NullPtr, lifetime |-> "none", from |-> 0]

NoIter == [st |-> "none", idx |-> 0, len |-> 0]

NoRead == <<0>>

\* Cast with a fault: the unsizing cast attaches no vtable.
CastNoVtable(p, ty) ==
    [addr |-> p.addr,
     ty |-> ty,
     len |-> IF ty = "Slice" THEN ConcreteLen ELSE 0,
     vtable |-> FALSE]

\* `e as *mut $ty`: a thin pointer stays thin; unsizing an array to a slice
\* attaches the length; unsizing to a trait object attaches the vtable of the
\* concrete type.
Cast(p, ty) ==
    [addr |-> p.addr,
     ty |-> ty,
     len |-> IF ty = "Slice" THEN ConcreteLen ELSE 0,
     vtable |-> (ty = "Dyn")]

\* The casts the compiler accepts: to the same type, or an unsizing of the
\* concrete type.
CastOk(p, ty) == p.ty = ty \/ p.ty = "Sized"

\* lifetime_of(&mut _lifetime_marker): the tag of the marker's borrow.
lifetime_of(marker) == marker

\* from_raw_parts with a fault: the pointer's metadata is dropped.
from_raw_parts_thin(p, lifetime) ==
    [ptr |-> [p EXCEPT !.len = 0, !.vtable = FALSE], lifetime |-> lifetime]

\* StackPtr::from_raw_parts(ptr, lifetime).
from_raw_parts(p, lifetime) == [ptr |-> p, lifetime |-> lifetime]

Local(kind, sp, st) == [kind |-> kind, sp |-> sp, st |-> st]

NoSp == from_raw_parts(NullPtr, "none")

Init ==
    /\ pc = "start"
    /\ expr \in Values
    /\ declTy \in Types
    /\ locals = <<>>
    /\ mem = <<>>
    /\ ptr = NullPtr
    /\ raw = NoRaw
    /\ iter = NoIter
    /\ refs = EmptyBag
    /\ destroyed = [i \in 1..Len(expr) |-> 0]
    /\ byIter = [i \in 1..Len(expr) |-> 0]
    /\ yielded = <<>>
    /\ lastNext = "-"
    /\ seen = NoRead
    /\ hist = [fromRaw |-> 0, reused |-> FALSE, memDrop |-> FALSE,
               coerced |-> FALSE]

---------------------------------------------------------------------------
\* __declare_stackptr!, one action per statement of the expansion.

\* let mut _value = $expr;
Bind ==
    /\ pc = "start"
    /\ pc' = "bound"
    /\ locals' = Append(locals, Local("value", NoSp, "live"))
    /\ mem' = expr
    /\ UNCHANGED <<expr, declTy, ptr, raw, iter, refs, destroyed, byIter,
                   yielded, lastNext, hist, seen>>

\* let mut _lifetime_marker = ();
DeclareMarker ==
    /\ pc = "bound"
    /\ pc' = "marked"
    /\ locals' = Append(locals, Local("marker", NoSp, "live"))
    /\ UNCHANGED <<expr, declTy, mem, ptr, raw, iter, refs, destroyed, byIter,
                   yielded, lastNext, hist, seen>>

\* let ptr = &mut _value as *mut $ty;
TakeAddr ==
    /\ pc = "marked"
    /\ pc' = "addr"
    /\ ptr' = Cast([NullPtr EXCEPT !.addr = "_value"], declTy)
    /\ UNCHANGED <<expr, declTy, locals, mem, raw, iter, refs, destroyed,
                   byIter, yielded, lastNext, hist, seen>>

\* forget with a fault: the call is missing, the local keeps its value.
forget_skipped(local) == local

\* mem::forget(x) of a local: the value is moved out of the local, which
\* clears the local's drop flag, and the moved value is never destroyed.  The
\* bytes in the local's storage are left as they are.
forget(local) == [local EXCEPT !.st = "moved"]

\* ::std::mem::forget(_value);
Forget ==
    /\ pc = "addr"
    /\ pc' = "forgot"
    /\ locals' = [locals EXCEPT ![1] = forget(locals[1])]
    /\ UNCHANGED <<expr, declTy, mem, ptr, raw, iter, refs, destroyed, byIter,
                   yielded, lastNext, hist, seen>>

\* let $name = StackPtr::from_raw_parts(ptr, lifetime_of(&mut _lifetime_marker));
Construct ==
    /\ pc = "forgot"
    /\ pc' = "body"
    /\ locals' = Append(locals,
                        Local("sp", from_raw_parts(ptr, lifetime_of("marker")),
                              "live"))
    /\ UNCHANGED <<expr, declTy, mem, ptr, raw, iter, refs, destroyed, byIter,
                   yielded, lastNext, hist, seen>>

---------------------------------------------------------------------------
\* Destruction.

\* ptr::drop_in_place(p): the elements whose destructor the drop glue of p's
\* type runs.  A thin pointer runs the glue of the concrete type, a slice
\* pointer destroys as many elements as its length says, and a trait-object
\* pointer runs the glue its vtable names.
drop_in_place(p) ==
    CASE p.ty = "Sized" -> Elems
      [] p.ty = "Slice" -> 1..p.len
      [] OTHER -> IF p.vtable THEN Elems ELSE {}

\* impl Drop for StackPtr.
drop(sp) == drop_in_place(sp.ptr)

\* What runs when a local (or a by-value parameter) goes out of scope: the
\* destructor of what it holds, unless it was moved out of.  The marker is a
\* (), which has none; a raw pair and a reference have none either.
EndOfScope(l) ==
    IF l.st # "live" THEN {}
    ELSE CASE l.kind = "sp" -> drop(l.sp)
           [] l.kind = "value" -> Elems
           [] OTHER -> {}

Destroy(count, S) == [i \in Elems |-> IF i \in S THEN count[i] + 1 ELSE count[i]]

---------------------------------------------------------------------------
\* The body of the block.

LiveSp(i) == i \in DOMAIN locals /\ locals[i].kind = "sp" /\ locals[i].st = "live"

\* The borrows of the binding itself (&self, &mut self) that are still held.
Borrowed(i) == \E r \in BagToSet(refs) : r.tied /\ r.of = i

MutBorrowed(i) ==
    \E r \in BagToSet(refs) : r.tied /\ r.of = i /\ r.mutable

\* A binding can be moved out of when it is initialized and not borrowed.  The
\* type is not Copy, so the move leaves the binding uninitialized.
Movable(i) == LiveSp(i) /\ ~Borrowed(i)

\* MovedFrom with a fault: the binding stays usable, as if StackPtr were Copy.
MovedFromCopy(l) == l

MovedFrom(l) == [l EXCEPT !.st = "moved"]

Room == Len(locals) < 3 + MaxLocals

\* let slice2 = slice;
Move(i) ==
    /\ pc = "body"
    /\ Movable(i)
    /\ Room
    /\ locals' = Append([locals EXCEPT ![i] = MovedFrom(@)],
                        Local("sp", locals[i].sp, "live"))
    /\ UNCHANGED <<pc, expr, declTy, mem, ptr, raw, iter, refs, destroyed,
                   byIter, yielded, lastNext, hist, seen>>

\* mem::drop(closure): the StackPtr is moved into the call and goes out of
\* scope there.
MemDrop(i) ==
    /\ pc = "body"
    /\ Movable(i)
    /\ locals' = [locals EXCEPT ![i] = MovedFrom(@)]
    /\ destroyed' = Destroy(destroyed, EndOfScope(locals[i]))
    /\ hist' = [hist EXCEPT !.memDrop = TRUE]
    /\ UNCHANGED <<pc, expr, declTy, mem, ptr, raw, iter, refs, byIter,
                   yielded, lastNext, seen>>

\* into_raw_parts with a fault: the mem::forget(sp) is missing.
into_raw_parts_no_forget(l) ==
    [ret |-> [ptr |-> l.sp.ptr, lifetime |-> l.sp.lifetime], sp |-> l]

\* StackPtr::into_raw_parts(sp): the pair it returns, and its parameter as it
\* is when the function returns.
into_raw_parts(l) ==
    [ret |-> [ptr |-> l.sp.ptr, lifetime |-> l.sp.lifetime],
     sp |-> forget(l)]

\* let (ptr, lifetime) = StackPtr::into_raw_parts(sp);
IntoRawParts(i) ==
    /\ pc = "body"
    /\ Movable(i)
    /\ LET r == into_raw_parts(locals[i]) IN
        /\ raw' = [ptr |-> r.ret.ptr, lifetime |-> r.ret.lifetime, from |-> i]
        /\ destroyed' = Destroy(destroyed, EndOfScope(r.sp))
    /\ locals' = [locals EXCEPT ![i] = MovedFrom(@)]
    /\ hist' = [hist EXCEPT !.fromRaw = 0]
    /\ UNCHANGED <<pc, expr, declTy, mem, ptr, iter, refs, byIter, yielded,
                   lastNext, seen>>

\* let sp = unsafe { StackPtr::from_raw_parts(ptr, lifetime) };  with the pair
\* into_raw_parts returned.  The pair is Copy: it is still there afterwards.
FromRawParts ==
    /\ pc = "body"
    /\ raw # NoRaw
    /\ Room
    /\ locals' = Append(locals,
                        Local("sp", from_raw_parts(raw.ptr, raw.lifetime), "live"))
    /\ hist' = [hist EXCEPT !.fromRaw = @ + 1,
                            !.reused = @ \/ hist.fromRaw >= 1]
    /\ UNCHANGED <<pc, expr, declTy, mem, ptr, raw, iter, refs, destroyed,
                   byIter, yielded, lastNext, seen>>

\* coerce_stackptr!(sp, ty): the StackPtr the macro's block evaluates to, and
\* the macro's argument as into_raw_parts left it.
coerce_stackptr(l, ty) ==
    LET r == into_raw_parts(l) IN
    [ret |-> from_raw_parts(Cast(r.ret.ptr, ty), r.ret.lifetime), sp |-> r.sp]

\* let sp = coerce_stackptr!(sp, ty);
Coerce(i, ty) ==
    /\ pc = "body"
    /\ Movable(i)
    /\ CastOk(locals[i].sp.ptr, ty)
    /\ Room
    /\ LET r == coerce_stackptr(locals[i], ty) IN
        /\ locals' = Append([locals EXCEPT ![i] = MovedFrom(@)],
                            Local("sp", r.ret, "live"))
        /\ destroyed' = Destroy(destroyed, EndOfScope(r.sp))
    /\ hist' = [hist EXCEPT !.coerced = TRUE]
    /\ UNCHANGED <<pc, expr, declTy, mem, ptr, raw, iter, refs, byIter,
                   yielded, lastNext, seen>>

---------------------------------------------------------------------------
\* Access to the pointee.

\* Read with a fault: a reference to the pointer field instead of the pointee
\* (&self.ptr for &*self.ptr).
ReadPtrField(p) == <<p.len>>

\* &*self.ptr: what a read through the pointer sees.
Read(p) == IF p.ty = "Slice" THEN SubSeq(mem, 1, p.len) ELSE mem

\* The reference each accessor returns.  `tied`: the reference's lifetime is
\* that of the borrow of the StackPtr (&self, &mut self), so the StackPtr stays
\* borrowed while the reference is alive; otherwise the lifetime is 'a and
\* the borrow of the StackPtr ends with the call.
\* fn deref(&self) -> &T
deref(i) == [via |-> "deref", of |-> i, mutable |-> FALSE, tied |-> TRUE]

\* fn deref_mut(&mut self) -> &mut T
deref_mut(i) == [via |-> "deref_mut", of |-> i, mutable |-> TRUE, tied |-> TRUE]

\* fn borrow(&self) -> &'a T
borrow(i) == [via |-> "borrow", of |-> i, mutable |-> FALSE, tied |-> FALSE]

\* fn borrow_mut(&mut self) -> &'a T
borrow_mut(i) == [via |-> "borrow_mut", of |-> i, mutable |-> FALSE, tied |-> FALSE]

RefRoom == BagCardinality(refs) < MaxRefs

\* let r = &*sp;
Deref(i) ==
    /\ pc = "body"
    /\ LiveSp(i)
    /\ ~MutBorrowed(i)
    /\ RefRoom
    /\ refs' = refs (+) SetToBag({deref(i)})
    /\ seen' = Read(locals[i].sp.ptr)
    /\ UNCHANGED <<pc, expr, declTy, locals, mem, ptr, raw, iter, destroyed,
                   byIter, yielded, lastNext, hist>>

\* let m = &mut *sp;
DerefMut(i) ==
    /\ pc = "body"
    /\ LiveSp(i)
    /\ ~Borrowed(i)
    /\ RefRoom
    /\ refs' = refs (+) SetToBag({deref_mut(i)})
    /\ UNCHANGED <<pc, expr, declTy, locals, mem, ptr, raw, iter, destroyed,
                   byIter, yielded, lastNext, hist, seen>>

\* let r = sp.borrow();
Borrow(i) ==
    /\ pc = "body"
    /\ LiveSp(i)
    /\ ~MutBorrowed(i)
    /\ RefRoom
    /\ refs' = refs (+) SetToBag({borrow(i)})
    /\ seen' = Read(locals[i].sp.ptr)
    /\ UNCHANGED <<pc, expr, declTy, locals, mem, ptr, raw, iter, destroyed,
                   byIter, yielded, lastNext, hist>>

\* let r = sp.borrow_mut();
BorrowMut(i) ==
    /\ pc = "body"
    /\ LiveSp(i)
    /\ ~Borrowed(i)
    /\ RefRoom
    /\ refs' = refs (+) SetToBag({borrow_mut(i)})
    /\ seen' = Read(locals[i].sp.ptr)
    /\ UNCHANGED <<pc, expr, declTy, locals, mem, ptr, raw, iter, destroyed,
                   byIter, yielded, lastNext, hist>>

RemoveAt(s, k) == [j \in 1..(Len(s) - 1) |-> IF j < k THEN s[j] ELSE s[j + 1]]

\* The last use of a reference.
Release(r) ==
    /\ pc = "body"
    /\ BagIn(r, refs)
    /\ refs' = refs (-) SetToBag({r})
    /\ UNCHANGED <<pc, expr, declTy, locals, mem, ptr, raw, iter, destroyed,
                   byIter, yielded, lastNext, hist, seen>>

---------------------------------------------------------------------------
\* The consuming iterator over a StackPtr<[T]>.

\* StackPtr::into_mut(self): the &'a mut [T] over the pointee, and the
\* parameter as it is when the function returns (the StackPtr is given up
\* without running its destructor).
into_mut(l) == [slice |-> [start |-> 0, len |-> l.sp.ptr.len], sp |-> forget(l)]

\* slice.into_iter(): a slice::IterMut at the start of the slice.
IterMut(slice) == [st |-> "live", idx |-> slice.start, len |-> slice.len]

\* slice::IterMut::next: the index of the element it points to next (0: None).
slice_iter_next(it) == IF it.idx < it.len THEN it.idx + 1 ELSE 0

\* let it = sp.into_iter();
IntoIter(i) ==
    /\ pc = "body"
    /\ Movable(i)
    /\ locals[i].sp.ptr.ty = "Slice"
    /\ iter = NoIter
    /\ Room
    /\ LET r == into_mut(locals[i]) IN
        /\ iter' = IterMut(r.slice)
        /\ destroyed' = Destroy(destroyed, EndOfScope(r.sp))
    /\ locals' = Append([locals EXCEPT ![i] = MovedFrom(@)],
                        Local("iter", NoSp, "live"))
    /\ UNCHANGED <<pc, expr, declTy, mem, ptr, raw, refs, byIter, yielded,
                   lastNext, hist, seen>>

\* SliceIntoIter::next: the element ptr::read copies out, if any.
next(it) ==
    LET k == slice_iter_next(it) IN
    IF k = 0 THEN [some |-> FALSE, item |-> <<0, 0>>, it |-> it]
    ELSE [some |-> TRUE, item |-> <<k, mem[k]>>, it |-> [it EXCEPT !.idx = k]]

\* let x = it.next();
IterNext ==
    /\ pc = "body"
    /\ iter.st = "live"
    /\ LET r == next(iter) IN
        /\ iter' = r.it
        /\ yielded' = IF r.some THEN Append(yielded, r.item) ELSE yielded
        /\ lastNext' = IF r.some THEN "Some" ELSE "None"
    /\ UNCHANGED <<pc, expr, declTy, locals, mem, ptr, raw, refs, destroyed,
                   byIter, hist, seen>>

\* iter_drop with a fault: the loop starts over from the first element.
iter_drop_all(it) == 1..it.len

\* impl Drop for SliceIntoIter: the elements the loop over the rest of
\* slice_iter drops in place.
iter_drop(it) == {k \in 1..it.len : k > it.idx}

IterLocal == CHOOSE i \in DOMAIN locals : locals[i].kind = "iter"

\* The iterator goes out of scope.
DropIter ==
    /\ destroyed' = Destroy(destroyed, iter_drop(iter))
    /\ byIter' = Destroy(byIter, iter_drop(iter))
    /\ iter' = [iter EXCEPT !.st = "dropped", !.idx = iter.len]

\* mem::drop(it);
IterDrop ==
    /\ pc = "body"
    /\ iter.st = "live"
    /\ DropIter
    /\ locals' = [locals EXCEPT ![IterLocal] = MovedFrom(@)]
    /\ UNCHANGED <<pc, expr, declTy, mem, ptr, raw, refs, yielded, lastNext,
                   hist, seen>>

---------------------------------------------------------------------------
\* The end of the block.

\* The body's last statement: no reference is used any more.
BeginExit ==
    /\ pc = "body"
    /\ pc' = "exit"
    /\ refs' = EmptyBag
    /\ UNCHANGED <<expr, declTy, locals, mem, ptr, raw, iter, destroyed,
                   byIter, yielded, lastNext, hist, seen>>

\* NextToDie with a fault: locals are destroyed in order of declaration.
NextToDieFirst(ls) == 1

\* The local that goes out of scope next: locals are destroyed in reverse
\* order of declaration.
NextToDie(ls) == Len(ls)

\* One local goes out of scope: its destructor runs if it is still
\* initialized, and its storage is released.
ExitStep ==
    /\ pc = "exit"
    /\ locals # <<>>
    /\ LET k == NextToDie(locals)
           l == locals[k] IN
        /\ locals' = RemoveAt(locals, k)
        /\ IF l.kind = "iter" /\ l.st = "live"
           THEN DropIter
           ELSE /\ destroyed' = Destroy(destroyed, EndOfScope(l))
                /\ UNCHANGED <<byIter, iter>>
        /\ mem' = IF l.kind = "value" THEN <<>> ELSE mem
    /\ pc' = IF Len(locals) = 1 THEN "done" ELSE "exit"
    /\ UNCHANGED <<expr, declTy, ptr, raw, refs, yielded, lastNext, hist, seen>>

---------------------------------------------------------------------------
L == 1..(3 + MaxLocals)

\* The expansion of declare_stackptr!.
Declare ==
    \/ Bind
    \/ DeclareMarker
    \/ TakeAddr
    \/ Forget
    \/ Construct

\* What the body does with the ownership of the pointee.
Own ==
    \/ \E i \in L : Move(i)
    \/ \E i \in L : MemDrop(i)
    \/ \E i \in L : IntoRawParts(i)
    \/ FromRawParts
    \/ \E i \in L, ty \in Types : Coerce(i, ty)
    \/ \E i \in L : IntoIter(i)
    \/ IterNext
    \/ IterDrop

\* What the body does with references to the pointee.
Access ==
    \/ \E i \in L : Deref(i)
    \/ \E i \in L : DerefMut(i)
    \/ \E i \in L : Borrow(i)
    \/ \E i \in L : BorrowMut(i)
    \/ \E r \in BagToSet(refs) : Release(r)

Exit ==
    \/ BeginExit
    \/ ExitStep

Next == Declare \/ Own \/ Access \/ Exit

\* Every block the model covers.
Spec == Init /\ [][Next]_vars

\* The blocks that take no reference to the pointee.
NextOwn == Declare \/ Own \/ Exit

SpecOwn == Init /\ [][NextOwn]_vars

\* The blocks that move and drop the StackPtr and take references, and do
\* not disassemble or iterate.
NextAccess ==
    \/ Declare
    \/ \E i \in L : Move(i)
    \/ \E i \in L : MemDrop(i)
    \/ Access
    \/ Exit

SpecAccess == Init /\ [][NextAccess]_vars

\* Properties.

LiveSps == {i \in DOMAIN locals : LiveSp(i)}

StorageAlive == \E i \in DOMAIN locals : locals[i].kind = "value"

MarkerAlive == \E i \in DOMAIN locals : locals[i].kind = "marker"

NoneDestroyed == \A e \in Elems : destroyed[e] = 0

AllDestroyedOnce == \A e \in Elems : destroyed[e] = 1

\* The owners of the pointee: the live StackPtrs, and the pair of
\* into_raw_parts while from_raw_parts has not been applied to it.
Owners ==
    Cardinality(LiveSps) + (IF raw # NoRaw /\ hist.fromRaw = 0 THEN 1 ELSE 0)

\* C1: a StackPtr that declare_stackptr! constructed and that is never
\* disassembled or iterated destroys each element of the pointee exactly
\* once: nothing is destroyed before the macro has run or while the StackPtr
\* is alive, nothing is ever destroyed twice, and when the block has exited
\* every element has been destroyed once (the forgotten `_value` adds no
\* second run).
C1_DropOnce ==
    (raw = NoRaw /\ iter = NoIter) =>
        /\ \A e \in Elems : destroyed[e] <= 1
        /\ pc \in {"start", "bound", "marked", "addr", "forgot"} => NoneDestroyed
        /\ LiveSps # {} => NoneDestroyed
        /\ pc = "done" => AllDestroyedOnce

\* The block has exited, the StackPtr was dropped by the exit, and each of the
\* three elements was destroyed once.
C1_Witness ==
    /\ pc = "done"
    /\ raw = NoRaw /\ iter = NoIter /\ ~hist.memDrop /\ ~hist.coerced
    /\ ConcreteLen = 3
    /\ AllDestroyedOnce

\* C2 as stated: in the body, while the pointee is not destroyed, it has
\* exactly one owner, a live StackPtr or a disassembled pair, whatever
\* sequence of moves, into_raw_parts and from_raw_parts ran.
C2_Original ==
    (pc = "body" /\ iter = NoIter /\ NoneDestroyed) => Owners = 1

\* C2 amended: the same, provided from_raw_parts was applied at most once to
\* each pair that into_raw_parts returned.
C2_SingleOwner ==
    (pc = "body" /\ iter = NoIter /\ NoneDestroyed /\ ~hist.reused) =>
        Owners = 1

\* A StackPtr was disassembled, reassembled once and then moved: two bindings
\* are moved out of and one StackPtr is alive.
C2_Witness ==
    /\ pc = "body"
    /\ raw # NoRaw /\ hist.fromRaw = 1 /\ ~hist.reused
    /\ NoneDestroyed
    /\ Cardinality(LiveSps) = 1
    /\ Len(locals) = 5
    /\ locals[4].st = "moved"

\* How many times next() returned element e.
YieldCount(e) == Cardinality({j \in DOMAIN yielded : yielded[j][1] = e})

\* C3: the k elements next() has returned are elements 1..k of the N in
\* index order, with their values; next() never returns more than N and
\* returns None only once all N were returned; the iterator destroys nothing
\* while it is alive, and once dropped it has destroyed each of the N-k
\* elements it did not return exactly once and none of the k it returned.
C3_Iter ==
    iter.st # "none" =>
        /\ iter.len = ConcreteLen
        /\ Len(yielded) <= iter.len
        /\ \A j \in DOMAIN yielded : yielded[j] = <<j, expr[j]>>
        /\ lastNext = "None" => Len(yielded) = iter.len
        /\ iter.st = "live" => /\ \A e \in Elems : byIter[e] = 0
                               /\ iter.idx = Len(yielded)
        /\ iter.st = "dropped" =>
            \A e \in Elems :
                /\ byIter[e] = IF e > Len(yielded) THEN 1 ELSE 0
                /\ YieldCount(e) + byIter[e] = 1

\* The iterator over three elements was dropped after one next(): the other
\* two were destroyed by it.
C3_Witness ==
    /\ iter.st = "dropped"
    /\ ConcreteLen = 3
    /\ Len(yielded) = 1
    /\ byIter = <<0, 1, 1>>

\* C4: while the pair into_raw_parts returned has not been passed to
\* from_raw_parts, no element of the pointee has been destroyed, up to and
\* including the exit of the block, and no StackPtr is alive; the pair holds
\* the pointer and the lifetime of the StackPtr that was consumed.
C4_Leak ==
    (raw # NoRaw /\ hist.fromRaw = 0 /\ ~hist.reused) =>
        /\ NoneDestroyed
        /\ LiveSps = {}
        /\ raw.ptr.addr = "_value"
        /\ pc = "body" =>
            /\ locals[raw.from].st = "moved"
            /\ raw.ptr = locals[raw.from].sp.ptr
            /\ raw.lifetime = locals[raw.from].sp.lifetime

\* The block has exited with the pair never reassembled: nothing was
\* destroyed.
C4_Witness ==
    /\ pc = "done"
    /\ raw # NoRaw /\ hist.fromRaw = 0 /\ ~hist.reused
    /\ NoneDestroyed

\* C5: after from_raw_parts was applied once to the pair of into_raw_parts,
\* the StackPtr it made (or the binding it was moved to) holds the address
\* the disassembled one held and, if not coerced since, the same pointer and
\* lifetime; a read through it sees the original value; no element is
\* destroyed while it is alive, none is ever destroyed twice, and at the exit
\* of the block every element has been destroyed once.
C5_RoundTrip ==
    (raw # NoRaw /\ hist.fromRaw = 1 /\ ~hist.reused /\ iter = NoIter) =>
        /\ \A i \in LiveSps :
            /\ locals[i].sp.ptr.addr = raw.ptr.addr
            /\ Read(locals[i].sp.ptr) = expr
            /\ ~hist.coerced =>
                locals[i].sp = [ptr |-> raw.ptr, lifetime |-> raw.lifetime]
        /\ LiveSps # {} => NoneDestroyed
        /\ \A e \in Elems : destroyed[e] <= 1
        /\ pc = "done" => AllDestroyedOnce

\* The block has exited after one round trip: the reassembled StackPtr was
\* dropped by the exit and each element was destroyed once.
C5_Witness ==
    /\ pc = "done"
    /\ raw # NoRaw /\ hist.fromRaw = 1 /\ ~hist.reused /\ iter = NoIter
    /\ ~hist.memDrop /\ ~hist.coerced
    /\ declTy = "Slice"
    /\ AllDestroyedOnce

\* C6: after coerce_stackptr!, with no raw pair around, at most one StackPtr
\* is alive; it holds the address of `_value` and its destructor destroys
\* every element of the concrete value; nothing is destroyed while it is
\* alive (the consumed StackPtr ran no destructor), nothing is destroyed
\* twice, and at the exit of the block every element has been destroyed once.
C6_Coerce ==
    (hist.coerced /\ raw = NoRaw /\ iter = NoIter) =>
        /\ Cardinality(LiveSps) <= 1
        /\ \A i \in LiveSps :
            /\ locals[i].sp.ptr.addr = "_value"
            /\ drop(locals[i].sp) = Elems
        /\ LiveSps # {} => NoneDestroyed
        /\ \A e \in Elems : destroyed[e] <= 1
        /\ pc = "done" => AllDestroyedOnce

\* A StackPtr over the concrete value was coerced to a trait object and
\* dropped by the exit of the block: each element was destroyed once.
C6_Witness ==
    /\ pc = "done"
    /\ hist.coerced /\ raw = NoRaw /\ iter = NoIter
    /\ declTy = "Sized"
    /\ AllDestroyedOnce
    /\ ConcreteLen = 3

\* C7: what deref, borrow and borrow_mut read through a StackPtr is the value
\* the StackPtr was declared over, element for element, and a read through
\* any live StackPtr would see that value.
C7_ReadBack ==
    /\ seen = NoRead \/ seen = expr
    /\ \A i \in LiveSps : Read(locals[i].sp.ptr) = expr

\* A deref of a StackPtr<[T]> over three elements, not all equal, read them.
C7_Witness ==
    /\ seen = expr
    /\ declTy = "Slice"
    /\ Len(expr) = 3
    /\ expr[1] # expr[2]
    /\ \E r \in BagToSet(refs) : r.via = "deref"

\* C8 as stated: while a reference that borrow() returned can still be used,
\* no element of the pointee has been destroyed.
C8_BorrowValid ==
    \A r \in BagToSet(refs) : r.via = "borrow" => NoneDestroyed

RefsOf(i) == {r \in BagToSet(refs) : r.of = i}

\* How many mutable references to the pointee of binding i are alive.
MutCount(i) ==
    LET S == {r \in RefsOf(i) : r.mutable} IN
    BagCardinality([r \in S |-> CopiesIn(r, refs)])

\* C9 as stated: for one StackPtr, at most one mutable accessor is alive, and
\* no read accessor is alive while a mutable one is.
C9_Exclusive ==
    \A i \in L :
        /\ MutCount(i) <= 1
        /\ MutCount(i) >= 1 => \A r \in RefsOf(i) : r.mutable

KindsOf(ls) == [i \in DOMAIN ls |-> ls[i].kind]

\* C10: the macro's steps run in the order bind, marker, address, forget,
\* construct; whenever a StackPtr (or the iterator made from it) is alive the
\* marker is alive and the storage of `_value` is allocated, and the marker
\* never outlives the storage: at the exit the StackPtr goes first, then the
\* marker, then the storage.
C10_Order ==
    /\ pc = "start" => locals = <<>>
    /\ pc = "bound" => KindsOf(locals) = <<"value">> /\ locals[1].st = "live"
    /\ pc = "marked" => /\ KindsOf(locals) = <<"value", "marker">>
                        /\ locals[1].st = "live"
                        /\ ptr = NullPtr
    /\ pc = "addr" => /\ KindsOf(locals) = <<"value", "marker">>
                      /\ locals[1].st = "live"
                      /\ ptr.addr = "_value"
    /\ pc = "forgot" => /\ KindsOf(locals) = <<"value", "marker">>
                        /\ locals[1].st = "moved"
    /\ pc = "body" => /\ SubSeq(KindsOf(locals), 1, 3) = <<"value", "marker", "sp">>
                      /\ locals[1].st = "moved"
    /\ (LiveSps # {} \/ iter.st = "live") => MarkerAlive /\ StorageAlive
    /\ MarkerAlive => StorageAlive
    /\ StorageAlive => mem = expr

\* In the exit of the block, the StackPtr has been destroyed, and the marker
\* and the storage of `_value` are still there.
C10_Witness ==
    /\ pc = "exit"
    /\ KindsOf(locals) = <<"value", "marker">>
    /\ AllDestroyedOnce
    /\ ~hist.memDrop

===========================================================================
